---- MODULE Spec2Model ----
(***************************************************************************)
(* Authentication and session-identity subsystem of the contacts backend:  *)
(* registration, e-mail confirmation, login, refresh-token rotation and    *)
(* the cache-backed identity resolver, as a state machine over the users   *)
(* table, the Redis cache, the clock and the tokens handed to clients.     *)
(***************************************************************************)
EXTENDS Integers, Sequences, FiniteSets, TLC

(***************************************************************************)
(* Bounds of the model.                                                    *)
(***************************************************************************)
\* the clock runs from 0 to MaxTime, in whole seconds
MaxTime == 2
\* clients hold at most MaxIssued tokens: a request that would hand out more
\* is not taken
MaxIssued == 5
\* lifetimes, in seconds, standing for the configured values
JWT_EXPIRATION_SECONDS == 1
JWT_REFRESH_EXPIRATION_SECONDS == 1
REDIS_EXPIRATION_TIME == 1
\* lifetime of an e-mail confirmation token, standing for timedelta(days=7)
EMAIL_TOKEN_SECONDS == 1

\* strings a client may send as username and as e-mail (both are plain str)
Names == {"n1", "n2"}
\* a username no registration uses
Unregistered == "n0"
Passwords == {"pw1", "pw2"}

(***************************************************************************)
(* Optional values: None is the empty sequence, a value v is <<v>>.        *)
(***************************************************************************)
None == <<>>
Some(v) == <<v>>
Val(o) == o[1]

(***************************************************************************)
(* Messages and status codes.                                              *)
(***************************************************************************)
USER_EMAIL_OR_NAME_ALREADY_EXISTS == "User with email or name already exists"
UNVERIFIED_CREDENTIALS == "Could not verify credentials"
INVALID_CREDENTIALS == "Wrong email or password"
INVALID_REFRESH_TOKEN == "Invalid or expired refresh token"
INSUFFICIENT_PERMISSIONS == "Insufficient access permissions"
USER_NOT_CONFIRMED == "Email address is not confirmed"
USER_NOT_FOUND == "User not found"
USER_ALREADY_CONFIRMED == "Your email is already confirmed"
USER_CONFIRMED == "Your email is confirmed"
UNEXISTING_TOKEN == "Unexisting token for mail confirmation"
EMAIL_SENT == "Email with confirmation sent"

VARIABLES
    now,        \* the clock, whole seconds
    users,      \* the users table: a sequence of rows, id = position
    cache,      \* Redis: key -> None or Some([json, expireAt])
    issued,     \* every token the server has handed out (held by clients)
    superseded, \* history: the stored refresh tokens that a later login or
                \* refresh of their identity has overwritten
    rotated,    \* history: the refresh tokens a successful refresh consumed
    prevAccess, \* history: username -> the access token last issued to it
    pending,    \* a request suspended at an await: None, or Some(its locals)
    last,       \* the most recent request and its response
    contacts,   \* the contact table: a set of rows
    groups,     \* the group table: a set of rows
    contact_m2m_group, \* the association table: pairs <<contact_id, group_id>>
    sequences,  \* the last value each id sequence has handed out
    removed     \* history: <<user id, contact id>> of the contacts deleted

vars ==
    <<now, users, cache, issued, superseded, rotated, prevAccess, pending, last,
      contacts, groups, contact_m2m_group, sequences, removed>>

\* the tables of the contact and group routes; the authentication and user
\* routes never write them
AddressBook == <<contacts, groups, contact_m2m_group, sequences, removed>>

(***************************************************************************)
(* Credential Hasher (passlib bcrypt): a salted one-way digest; verify is  *)
(* true exactly for the plaintext that was hashed.                         *)
(***************************************************************************)
get_password_hash(password) == [scheme |-> "bcrypt", of |-> password]

verify_password(plain_password, hashed_password) ==
    hashed_password.scheme = "bcrypt" /\ hashed_password.of = plain_password

(***************************************************************************)
(* Token Codec (python-jose).  A token string is determined by its payload *)
(* and the signing key; datetimes are encoded as whole seconds.            *)
(***************************************************************************)
JWT_SECRET == "config.JWT_SECRET"

JwtEncode(claims, key) == [payload |-> claims, sig |-> key]

Get(payload, k) == IF k \in DOMAIN payload THEN Some(payload[k]) ELSE None

\* faulty variant: a token is refused from the second of its exp on
JwtDecode_StrictExpiry(token, key, t) ==
    IF token.sig # key THEN None
    ELSE IF "exp" \in DOMAIN token.payload /\ token.payload["exp"] <= t THEN None
    ELSE Some(token.payload)

\* faulty variant: exp is not verified
JwtDecode_NoExpiry(token, key, t) ==
    IF token.sig # key THEN None ELSE Some(token.payload)

\* jwt.decode: None stands for JWTError (bad signature, malformed, expired)
JwtDecode(token, key, t) ==
    IF token.sig # key THEN None
    ELSE IF "exp" \in DOMAIN token.payload /\ token.payload["exp"] < t THEN None
    ELSE Some(token.payload)

create_token(data, token_type, expires_delta, t) ==
    JwtEncode([sub |-> data.sub, exp |-> t + expires_delta, iat |-> t,
               token_type |-> token_type], JWT_SECRET)

create_access_token(data, t) ==
    create_token(data, "access", JWT_EXPIRATION_SECONDS, t)

create_refresh_token(data, t) ==
    create_token(data, "refresh", JWT_REFRESH_EXPIRATION_SECONDS, t)

create_email_token(data, t) ==
    JwtEncode([sub |-> data.sub, iat |-> t, exp |-> t + EMAIL_TOKEN_SECONDS],
              JWT_SECRET)

\* tokens not made by the server: signed with another key, or not a JWT at all
ForgedTokens ==
    { JwtEncode([sub |-> "n1", exp |-> MaxTime + 1, iat |-> 0,
                 token_type |-> k], "attacker key") : k \in {"access", "refresh"} }
    \cup { [payload |-> [garbage |-> TRUE], sig |-> "not a JWT"] }

Presentable == issued \cup ForgedTokens

\* tokens that verify under the key although no handler made them: the row of
\* the subject is not in the table, or the payload has no sub
StrayTokens ==
    { JwtEncode([sub |-> Unregistered, exp |-> MaxTime + 1, iat |-> 0,
                 token_type |-> "access"], JWT_SECRET),
      JwtEncode([exp |-> MaxTime + 1, iat |-> 0, token_type |-> "access"],
                JWT_SECRET) }

\* what a client may send as bearer token
Bearer == Presentable \cup StrayTokens

WithinBounds == Cardinality(issued') <= MaxIssued

(***************************************************************************)
(* UserRepository over the users table.                                    *)
(***************************************************************************)
Ids == 1..Len(users)

\* scalar_one_or_none over a unique column: the row's id, or None
OneOrNone(S) == IF S = {} THEN None ELSE Some(CHOOSE i \in S : TRUE)

\* `if refresh_token:` - an absent token adds no filter
UserRepository_get_user_by_username(username, refresh_token) ==
    OneOrNone({ i \in Ids :
        /\ users[i].username = username
        /\ (refresh_token # None => users[i].refresh_token = refresh_token) })

UserRepository_get_user_by_email(email) ==
    OneOrNone({ i \in Ids : users[i].email = email })

\* UserService delegates to the repository
UserService_get_user_by_username(username, refresh_token) ==
    UserRepository_get_user_by_username(username, refresh_token)

UserService_get_user_by_email(email) ==
    UserRepository_get_user_by_email(email)

(***************************************************************************)
(* Identity Cache (Redis): a key is gone once its expiry time is reached.  *)
(***************************************************************************)
\* faulty variant: the lookup never finds the key
redis_get_AlwaysMiss(key) == None

redis_get(key) ==
    IF cache[key] # None /\ now < Val(cache[key]).expireAt
    THEN Some(Val(cache[key]).json) ELSE None

\* the expiry time of a key that has no time to live: beyond the clock
NEVER == MaxTime + REDIS_EXPIRATION_TIME + 1

\* SET key value: the value replaces the old one and the key loses its time
\* to live
redis_set(c, key, json) ==
    [c EXCEPT ![key] = Some([json |-> json, setAt |-> now, expireAt |-> NEVER])]

\* EXPIRE key ttl: no effect on a key that is not there
redis_expire(c, key, ttl) ==
    IF c[key] = None THEN c
    ELSE [c EXCEPT ![key] = Some([Val(c[key]) EXCEPT !.expireAt = now + ttl])]

\* redis_connector.set(key, json) followed by redis_connector.expire(key, ttl)
redis_set_expire(key, json, ttl) ==
    redis_expire(redis_set(cache, key, json), key, ttl)

\* UserBase.model_validate(user).model_dump_json(exclude=["contacts","groups"])
UserBase(row) ==
    [id |-> row.id, username |-> row.username, email |-> row.email,
     avatar |-> row.avatar, role |-> row.role]

(***************************************************************************)
(* Requests and responses.  last records the request just served.          *)
(***************************************************************************)
Response(op, args, status, detail, body, queries) ==
    [op |-> op, args |-> args, status |-> status, detail |-> detail,
     body |-> body, queries |-> queries]

NoBody == [none |-> TRUE]

\* the tables unchanged by a request that fails
Rejected ==
    UNCHANGED <<now, users, cache, issued, superseded, rotated, prevAccess,
                pending>>

(***************************************************************************)
(* POST /auth/register                                                     *)
(***************************************************************************)
\* UserRepository.create_user: confirmed, refresh_token and avatar take
\* their column defaults
create_user(body, hashed) ==
    [id |-> Len(users) + 1, username |-> body.username, email |-> body.email,
     hashed_password |-> hashed, refresh_token |-> None, avatar |-> None,
     confirmed |-> FALSE, role |-> body.role]

\* the background task mails a confirmation token for the address
send_email(email, t) == create_email_token([sub |-> email], t)

register(body) ==
    IF UserService_get_user_by_email(body.email) # None
       \/ UserService_get_user_by_username(body.username, None) # None
    THEN /\ last' = Response("register", body, 409,
                             USER_EMAIL_OR_NAME_ALREADY_EXISTS, NoBody,
                             {"users"})
         /\ Rejected
    ELSE LET new_user == create_user(body, get_password_hash(body.password))
         IN /\ users' = Append(users, new_user)
            /\ issued' = issued \cup {send_email(new_user.email, now)}
            /\ last' = Response("register", body, 201, "", UserBase(new_user),
                                {"users"})
            /\ UNCHANGED <<now, cache, superseded, rotated, prevAccess,
                           pending>>

\* the registrations clients attempt: the username of each is the e-mail
\* address of the other (both fields are unconstrained strings)
RegisterBodies ==
    { [username |-> "n1", email |-> "n2", password |-> "pw1", role |-> "admin"],
      [username |-> "n2", email |-> "n1", password |-> "pw2", role |-> "user"] }

Register ==
    \E body \in RegisterBodies :
        register(body) /\ WithinBounds /\ UNCHANGED AddressBook

(***************************************************************************)
(* GET /auth/confirm-email/{token} and POST /auth/request_email            *)
(***************************************************************************)
\* None stands for the 422 raised on JWTError; otherwise payload.get("sub")
get_email_from_token(token) ==
    LET payload == JwtDecode(token, JWT_SECRET, now)
    IN IF payload = None THEN None ELSE Some(Get(Val(payload), "sub"))

\* faulty variant: the UPDATE has no WHERE clause and confirms every row
confirmed_email_EveryRow(email) ==
    [i \in Ids |-> [users[i] EXCEPT !.confirmed = TRUE]]

\* UserRepository.confirmed_email
confirmed_email(email) ==
    LET user == UserRepository_get_user_by_email(email)
    IN [users EXCEPT ![Val(user)].confirmed = TRUE]

confirm_email(token) ==
    LET decoded == get_email_from_token(token)
        args == [token |-> token]
    IN IF decoded = None
       THEN /\ last' = Response("confirm_email", args, 422, UNEXISTING_TOKEN,
                                NoBody, {})
            /\ Rejected
       ELSE LET email == Val(decoded)
                user == IF email = None THEN None
                        ELSE UserService_get_user_by_email(Val(email))
            IN IF user = None
               THEN /\ last' = Response("confirm_email", args, 404,
                                        USER_NOT_FOUND, NoBody, {"users"})
                    /\ Rejected
               ELSE IF users[Val(user)].confirmed
               THEN /\ last' = Response("confirm_email", args, 200,
                                        USER_ALREADY_CONFIRMED, NoBody,
                                        {"users"})
                    /\ Rejected
               ELSE /\ users' = confirmed_email(Val(email))
                    /\ last' = Response("confirm_email", args, 200,
                                        USER_CONFIRMED, NoBody, {"users"})
                    /\ UNCHANGED <<now, cache, issued, superseded, rotated,
                                   prevAccess, pending>>

ConfirmEmail ==
    \E token \in Presentable : confirm_email(token) /\ UNCHANGED AddressBook

request_email(email) ==
    LET user == UserService_get_user_by_email(email)
        args == [email |-> email]
    IN IF user = None
       THEN /\ last' = Response("request_email", args, 404, USER_NOT_FOUND,
                                NoBody, {"users"})
            /\ Rejected
       ELSE IF users[Val(user)].confirmed
       THEN /\ last' = Response("request_email", args, 200,
                                USER_ALREADY_CONFIRMED, NoBody, {"users"})
            /\ Rejected
       ELSE /\ issued' = issued \cup {send_email(users[Val(user)].email, now)}
            /\ last' = Response("request_email", args, 200, EMAIL_SENT, NoBody,
                                {"users"})
            /\ UNCHANGED <<now, users, cache, superseded, rotated, prevAccess,
                           pending>>

RequestEmail ==
    \E e \in Names :
        request_email(e) /\ WithinBounds /\ UNCHANGED AddressBook

(***************************************************************************)
(* Session Manager: POST /auth/login and POST /auth/refresh-token          *)
(***************************************************************************)
\* faulty variant: the new token is never written to the row
StoreRefreshToken_NotWritten(id, refresh_token) == users

\* user.refresh_token = refresh_token; await db.commit()
StoreRefreshToken(id, refresh_token) ==
    [users EXCEPT ![id].refresh_token = Some(refresh_token)]

\* the token pair of the response body
TokenBody(access_token, refresh_token) ==
    [access_token |-> access_token, refresh_token |-> refresh_token,
     token_type |-> "bearer"]

\* mint a pair for the row, store the refresh token, answer with the pair
IssuePair(op, args, id, queries) ==
    LET username == users[id].username
        access_token == create_access_token([sub |-> username], now)
        refresh_token == create_refresh_token([sub |-> username], now)
    IN /\ users' = StoreRefreshToken(id, refresh_token)
       /\ issued' = issued \cup {access_token, refresh_token}
       /\ superseded' =
             IF users[id].refresh_token = None THEN superseded
             ELSE superseded \cup {Val(users[id].refresh_token)}
       /\ rotated' = IF op = "refresh" THEN rotated \cup {args.refresh_token}
                     ELSE rotated
       /\ prevAccess' = [prevAccess EXCEPT ![username] = Some(access_token)]
       /\ last' = Response(op, args, 200, "",
                           TokenBody(access_token, refresh_token), queries)
       /\ UNCHANGED <<now, cache>>

\* faulty variant: the confirmation check is missing
login_check_NoConfirmation(user, password) ==
    IF user = None
       \/ ~verify_password(password, users[Val(user)].hashed_password)
    THEN INVALID_CREDENTIALS
    ELSE ""

\* faulty variant: the confirmation check comes before the credential check
login_check_ConfirmationFirst(user, password) ==
    IF user # None /\ ~users[Val(user)].confirmed THEN USER_NOT_CONFIRMED
    ELSE IF user = None
            \/ ~verify_password(password, users[Val(user)].hashed_password)
    THEN INVALID_CREDENTIALS
    ELSE ""

\* the two checks of login_user, in the order of the code
login_check(user, password) ==
    IF user = None
       \/ ~verify_password(password, users[Val(user)].hashed_password)
    THEN INVALID_CREDENTIALS
    ELSE IF ~users[Val(user)].confirmed THEN USER_NOT_CONFIRMED
    ELSE ""

login_user(username, password) ==
    LET user == UserService_get_user_by_username(username, None)
        args == [username |-> username, password |-> password]
        failure == login_check(user, password)
    IN IF failure # ""
       THEN /\ last' = Response("login", args, 401, failure, NoBody, {"users"})
            /\ Rejected
       ELSE IssuePair("login", args, Val(user), {"users"}) /\ UNCHANGED pending

Login ==
    \E u \in Names, p \in Passwords :
        login_user(u, p) /\ WithinBounds /\ UNCHANGED AddressBook

\* [error |-> detail] for a raised HTTPException (401), [user |-> row or None]
\* for a returned value
verify_refresh_token(refresh_token) ==
    LET payload == JwtDecode(refresh_token, JWT_SECRET, now)
    IN IF payload = None THEN [error |-> UNVERIFIED_CREDENTIALS]
       ELSE LET username == Get(Val(payload), "sub")
                token_type == Get(Val(payload), "token_type")
            IN IF username = None \/ token_type # Some("refresh")
               THEN [error |-> UNVERIFIED_CREDENTIALS]
               ELSE [user |-> UserService_get_user_by_username(
                                  Val(username), Some(refresh_token))]

\* history: a suspended refresh of the same token learns which refresh token
\* the request served meanwhile was given
Overtaken(refresh_token, id) ==
    IF pending # None /\ "other" \in DOMAIN Val(pending)
       /\ Val(pending).refresh_token = refresh_token
    THEN Some([Val(pending) EXCEPT !.other =
                 Some(create_refresh_token([sub |-> users[id].username], now))])
    ELSE pending

new_token(refresh_token) ==
    LET verified == verify_refresh_token(refresh_token)
        args == [refresh_token |-> refresh_token]
    IN IF "error" \in DOMAIN verified
       THEN /\ last' = Response("refresh", args, 401, verified.error, NoBody,
                                {})
            /\ Rejected
       ELSE IF verified.user = None
       THEN /\ last' = Response("refresh", args, 401, INVALID_REFRESH_TOKEN,
                                NoBody, {"users"})
            /\ Rejected
       ELSE /\ IssuePair("refresh", args, Val(verified.user), {"users"})
            /\ pending' = Overtaken(refresh_token, Val(verified.user))

Refresh ==
    \E token \in Presentable :
        new_token(token) /\ WithinBounds /\ UNCHANGED AddressBook

(***************************************************************************)
(* Identity Resolver: get_current_user, as used by GET /users/me           *)
(***************************************************************************)
\* faulty variant: an access token dies with the refresh token it came with
access_subject_UntilRotation(token) ==
    LET payload == JwtDecode(token, JWT_SECRET, now)
    IN IF payload = None THEN None
       ELSE LET username == Get(Val(payload), "sub")
                token_type == Get(Val(payload), "token_type")
            IN IF username = None \/ token_type # Some("access") THEN None
               ELSE IF \E i \in Ids :
                         /\ users[i].username = Val(username)
                         /\ users[i].refresh_token
                              # Some(create_refresh_token(
                                       [sub |-> Val(username)],
                                       Val(payload).iat))
               THEN None
               ELSE username

\* faulty variant: the token_type of the payload is not looked at
access_subject_AnyKind(token) ==
    LET payload == JwtDecode(token, JWT_SECRET, now)
    IN IF payload = None THEN None ELSE Get(Val(payload), "sub")

\* the try block: the subject of an acceptable bearer token, or None
access_subject(token) ==
    LET payload == JwtDecode(token, JWT_SECRET, now)
    IN IF payload = None THEN None
       ELSE LET username == Get(Val(payload), "sub")
                token_type == Get(Val(payload), "token_type")
            IN IF username = None \/ token_type # Some("access") THEN None
               ELSE username

\* faulty variant: on a hit the row is read again from the users table
User_from_json_Reloaded(json) == UserBase(users[json.id])

\* User(**json.loads(retrieved_user_json), contacts=..., groups=...): the
\* columns of the snapshot, as they were when it was taken
User_from_json(json) == json

\* what the dependency hands to the route: the status and detail of the
\* HTTPException or the identity, the cache it leaves, the tables it queried
Resolved(status, detail, user, c, queries) ==
    [status |-> status, detail |-> detail, user |-> user, cache |-> c,
     queries |-> queries]

\* faulty variant: an unknown subject is told apart from a bad token
credentials_exception_NotFound(c, queries) ==
    IF queries = {} THEN Resolved(401, UNVERIFIED_CREDENTIALS, NoBody, c, queries)
    ELSE Resolved(404, USER_NOT_FOUND, NoBody, c, queries)

\* the one HTTPException get_current_user raises, wherever it gives up
credentials_exception(c, queries) ==
    Resolved(401, UNVERIFIED_CREDENTIALS, NoBody, c, queries)

get_current_user(token) ==
    LET subject == access_subject(token)
    IN IF subject = None
       THEN credentials_exception(cache, {})
       ELSE LET username == Val(subject)
                retrieved_user_json == redis_get(username)
            IN IF retrieved_user_json # None
               THEN \* hit: the snapshot, plus the contacts and groups of its id
                    Resolved(200, "", User_from_json(Val(retrieved_user_json)),
                             cache, {"contacts", "groups"})
               ELSE LET user == UserService_get_user_by_username(username, None)
                    IN IF user = None
                       THEN credentials_exception(cache, {"users"})
                       ELSE LET user_json == UserBase(users[Val(user)])
                            IN Resolved(200, "", user_json,
                                        redis_set_expire(username, user_json,
                                                         REDIS_EXPIRATION_TIME),
                                        {"users"})

\* GET /users/me answers with the identity the dependency resolved
me(token) ==
    LET current == get_current_user(token)
    IN /\ cache' = current.cache
       /\ last' = Response("resolve", [token |-> token], current.status,
                           current.detail, current.user, current.queries)
       /\ UNCHANGED <<now, users, issued, superseded, rotated, prevAccess,
                      pending>>

Resolve == \E token \in Bearer : me(token) /\ UNCHANGED AddressBook

(***************************************************************************)
(* PATCH /users/avatar, behind get_current_admin_user                      *)
(***************************************************************************)
\* UserRole is a str Enum: a member equals its value, also after the value
\* has been through the JSON snapshot
UserRole_USER == "user"
UserRole_ADMIN == "admin"

\* faulty variant: the role is not looked at
get_current_admin_user_AnyRole(current_user) == [user |-> current_user]

\* [error |-> detail] for the 403, [user |-> identity] for a returned value
get_current_admin_user(current_user) ==
    IF current_user.role # UserRole_ADMIN
    THEN [error |-> INSUFFICIENT_PERMISSIONS]
    ELSE [user |-> current_user]

\* UploadFileService.upload_file: the URL built from the public id and the
\* version Cloudinary assigns to the upload (its time stamp)
upload_file(username, t) ==
    [folder |-> "ContactsAPI", public_id |-> username, version |-> t]

\* faulty variant: the update also clears the stored refresh token
update_avatar_url_ClearsToken(email, avatar_url) ==
    LET user == UserRepository_get_user_by_email(email)
    IN [users EXCEPT ![Val(user)].avatar = Some(avatar_url),
                     ![Val(user)].refresh_token = None]

\* UserRepository.update_avatar_url
update_avatar_url(email, avatar_url) ==
    LET user == UserRepository_get_user_by_email(email)
    IN [users EXCEPT ![Val(user)].avatar = Some(avatar_url)]

update_avatar(token) ==
    LET current == get_current_user(token)
        args == [token |-> token]
    IN IF current.status # 200
       THEN /\ last' = Response("update_avatar", args, current.status,
                                current.detail, NoBody, current.queries)
            /\ Rejected
       ELSE LET admin == get_current_admin_user(current.user)
            IN IF "error" \in DOMAIN admin
               THEN /\ cache' = current.cache
                    /\ last' = Response("update_avatar", args, 403, admin.error,
                                        NoBody, current.queries)
                    /\ UNCHANGED <<now, users, issued, superseded, rotated,
                                   prevAccess, pending>>
               ELSE LET user == admin.user
                        avatar_url == upload_file(user.username, now)
                        row == Val(UserRepository_get_user_by_email(user.email))
                    IN /\ users' = update_avatar_url(user.email, avatar_url)
                       /\ cache' = current.cache
                       /\ last' = Response("update_avatar", args, 200, "",
                                           UserBase(users'[row]),
                                           current.queries \cup {"users"})
                       /\ UNCHANGED <<now, issued, superseded, rotated,
                                      prevAccess, pending>>

UpdateAvatar ==
    \E token \in Bearer : update_avatar(token) /\ UNCHANGED AddressBook

(***************************************************************************)
(* The clock.  Redis drops the keys whose expiry time has come.            *)
(***************************************************************************)
Tick ==
    /\ now < MaxTime
    /\ now' = now + 1
    /\ cache' = [k \in DOMAIN cache |->
                   IF cache[k] # None /\ Val(cache[k]).expireAt <= now + 1
                   THEN None ELSE cache[k]]
    /\ last' = Response("tick", [none |-> TRUE], 0, "", NoBody, {})
    /\ UNCHANGED <<users, issued, superseded, rotated, prevAccess, pending>>
    /\ UNCHANGED AddressBook

Init ==
    /\ now = 0
    /\ users = <<>>
    /\ cache = [k \in Names \cup {Unregistered} |-> None]
    /\ issued = {}
    /\ superseded = {}
    /\ rotated = {}
    /\ prevAccess = [k \in Names |-> None]
    /\ pending = None
    /\ last = Response("init", [none |-> TRUE], 0, "", NoBody, {})
    /\ contacts = {}
    /\ groups = {}
    /\ contact_m2m_group = {}
    /\ sequences = [contact_id_seq |-> 0, group_id_seq |-> 0]
    /\ removed = {}

Next ==
    \/ Register
    \/ ConfirmEmail
    \/ RequestEmail
    \/ Login
    \/ Refresh
    \/ Resolve
    \/ UpdateAvatar
    \/ Tick

Spec == Init /\ [][Next]_vars

(***************************************************************************)
(* Requests interleaved at their awaits.  One request runs in steps, its   *)
(* locals held in pending, while the other requests are served in between. *)
(* A step that changes nothing but the response is left out, except the    *)
(* answer to a registration.                                               *)
(***************************************************************************)
Suspended == Response("suspended", [none |-> TRUE], 0, "", NoBody, {})

Effective ==
    \/ <<now, users, cache, issued, pending>>' # <<now, users, cache, issued, pending>>
    \/ last'.op = "register"

\* new_token up to the await of verify_refresh_token, for a token that passes
new_token_verified(refresh_token) ==
    LET verified == verify_refresh_token(refresh_token)
    IN /\ pending = None
       /\ "user" \in DOMAIN verified /\ verified.user # None
       /\ pending' = Some([op |-> "refresh", refresh_token |-> refresh_token,
                           user |-> Val(verified.user), other |-> None])
       /\ last' = Suspended
       /\ UNCHANGED <<now, users, cache, issued, superseded, rotated,
                      prevAccess>>

\* new_token from the minting on: the row read before the await is written
new_token_commit ==
    /\ pending # None /\ Val(pending).op = "refresh"
    /\ IssuePair("refresh", [refresh_token |-> Val(pending).refresh_token],
                 Val(pending).user, {"users"})
    /\ pending' = None

RefreshVerified ==
    \E token \in issued :
        new_token_verified(token) /\ UNCHANGED AddressBook

RefreshCommit == new_token_commit /\ WithinBounds /\ UNCHANGED AddressBook

\* get_current_user up to the await of the users query, on a cache miss
get_current_user_miss(token) ==
    LET subject == access_subject(token)
        user == UserService_get_user_by_username(Val(subject), None)
    IN /\ pending = None
       /\ subject # None /\ redis_get(Val(subject)) = None /\ user # None
       /\ pending' = Some([op |-> "resolve", token |-> token,
                           username |-> Val(subject),
                           user_json |-> UserBase(users[Val(user)]),
                           next |-> "set"])
       /\ last' = Suspended
       /\ UNCHANGED <<now, users, cache, issued, superseded, rotated,
                      prevAccess>>

\* redis_connector.set(str(username), user_json)
get_current_user_set ==
    /\ pending # None /\ Val(pending).op = "resolve"
    /\ Val(pending).next = "set"
    /\ cache' = redis_set(cache, Val(pending).username, Val(pending).user_json)
    /\ pending' = Some([Val(pending) EXCEPT !.next = "expire"])
    /\ last' = Suspended
    /\ UNCHANGED <<now, users, issued, superseded, rotated, prevAccess>>

\* redis_connector.expire(str(username), ttl), and the answer of the route
get_current_user_expire ==
    /\ pending # None /\ Val(pending).op = "resolve"
    /\ Val(pending).next = "expire"
    /\ cache' = redis_expire(cache, Val(pending).username,
                             REDIS_EXPIRATION_TIME)
    /\ pending' = None
    /\ last' = Response("resolve", [token |-> Val(pending).token], 200, "",
                        Val(pending).user_json, {"users"})
    /\ UNCHANGED <<now, users, issued, superseded, rotated, prevAccess>>

ResolveMiss ==
    \E token \in issued :
        get_current_user_miss(token) /\ UNCHANGED AddressBook

ResolveSet == get_current_user_set /\ UNCHANGED AddressBook

ResolveExpire == get_current_user_expire /\ UNCHANGED AddressBook

\* faulty variant: the columns are not declared unique
UniqueViolation_Off(row) == FALSE

\* unique=True on users.username and users.email: the INSERT is refused
UniqueViolation(row) ==
    \E i \in Ids :
        users[i].username = row.username \/ users[i].email = row.email

\* UserService.create_user: the INSERT, a refused one answered as a conflict
UserService_create_user(body) ==
    LET new_user == create_user(body, body.password)
    IN IF UniqueViolation(new_user)
       THEN [error |-> USER_EMAIL_OR_NAME_ALREADY_EXISTS]
       ELSE [user |-> new_user]

\* register up to the awaits of its two lookups, both of which found nothing
register_checked(body) ==
    /\ pending = None
    /\ UserService_get_user_by_email(body.email) = None
    /\ UserService_get_user_by_username(body.username, None) = None
    /\ pending' = Some([op |-> "register", body |-> body])
    /\ last' = Suspended
    /\ UNCHANGED <<now, users, cache, issued, superseded, rotated, prevAccess>>

\* register from the hashing on
register_commit ==
    /\ pending # None /\ Val(pending).op = "register"
    /\ LET body == Val(pending).body
           hashed == [body EXCEPT !.password = get_password_hash(body.password)]
           created == UserService_create_user(hashed)
       IN IF "error" \in DOMAIN created
          THEN /\ last' = Response("register", body, 409, created.error, NoBody,
                                   {"users"})
               /\ UNCHANGED <<users, issued>>
          ELSE /\ users' = Append(users, created.user)
               /\ issued' = issued \cup {send_email(created.user.email, now)}
               /\ last' = Response("register", body, 201, "",
                                   UserBase(created.user), {"users"})
    /\ pending' = None
    /\ UNCHANGED <<now, cache, superseded, rotated, prevAccess>>

RegisterChecked ==
    \E body \in RegisterBodies :
        register_checked(body) /\ UNCHANGED AddressBook

RegisterCommit == register_commit /\ WithinBounds /\ UNCHANGED AddressBook

RaceRegister == Register /\ Effective
RaceConfirmEmail == ConfirmEmail /\ Effective
RaceRequestEmail == RequestEmail /\ Effective
RaceLogin == Login /\ Effective
RaceRefresh == Refresh /\ Effective
RaceResolve == Resolve /\ Effective
RaceUpdateAvatar == UpdateAvatar /\ Effective

NextRace ==
    \/ RaceRegister
    \/ RaceConfirmEmail
    \/ RaceRequestEmail
    \/ RaceLogin
    \/ RaceRefresh
    \/ RaceResolve
    \/ RaceUpdateAvatar
    \/ Tick
    \/ RefreshVerified
    \/ RefreshCommit
    \/ ResolveMiss
    \/ ResolveSet
    \/ ResolveExpire
    \/ RegisterChecked
    \/ RegisterCommit

SpecRace == Init /\ [][NextRace]_vars

(***************************************************************************)
(* Redis out of reach.  A call on redis_connector that fails raises        *)
(* redis.exceptions.ConnectionError, which nothing catches: the request    *)
(* ends as a 500.                                                          *)
(***************************************************************************)
INTERNAL_SERVER_ERROR == "Internal Server Error"

\* get_current_user with the named call on redis_connector failing
get_current_user_redis_error(token, failing) ==
    LET subject == access_subject(token)
        username == Val(subject)
        user == UserService_get_user_by_username(username, None)
        args == [token |-> token]
    IN /\ subject # None
       /\ IF failing = "get"
          THEN /\ last' = Response("resolve", args, 500, INTERNAL_SERVER_ERROR,
                                   NoBody, {})
               /\ Rejected
          ELSE /\ redis_get(username) = None /\ user # None
               /\ cache' = IF failing = "set" THEN cache
                           ELSE redis_set(cache, username,
                                          UserBase(users[Val(user)]))
               /\ last' = Response("resolve", args, 500, INTERNAL_SERVER_ERROR,
                                   NoBody, {"users"})
               /\ UNCHANGED <<now, users, issued, superseded, rotated,
                              prevAccess, pending>>

ResolveRedisError ==
    \E token \in Bearer, failing \in {"get", "set", "expire"} :
        get_current_user_redis_error(token, failing) /\ UNCHANGED AddressBook

NextOutage ==
    \/ RaceRegister
    \/ RaceConfirmEmail
    \/ RaceRequestEmail
    \/ RaceLogin
    \/ RaceRefresh
    \/ Resolve
    \/ RaceUpdateAvatar
    \/ Tick
    \/ ResolveRedisError

SpecOutage == Init /\ [][NextOutage]_vars

(***************************************************************************)
(* Contacts and groups: src/api/contacts.py and src/api/groups.py over     *)
(* ContactService, GroupService and their repositories.  Every route       *)
(* depends on get_current_user.  Of a contact the model keeps name,        *)
(* birthday and is_active; surname, email and phone_number are stored and  *)
(* returned the way name is.                                               *)
(***************************************************************************)
\* the values each id sequence may hand out
MaxContacts == 2
MaxGroups == 2

ContactNames == {"Ann", "Bob"}
GroupNames == {"family", "work"}

GROUP_ALREADY_EXISTS == "Group with this name already exists"
GROUP_NOT_FOUND == "Group not found"
CONTACT_NOT_FOUND == "Contact not found"
INTEGRITY_ERROR == "Data integrity error"

\* datetime.date
Date(y, m, d) == [year |-> y, month |-> m, day |-> d]

\* a <= b and a < b on dates
DateLE(a, b) ==
    \/ a.year < b.year
    \/ a.year = b.year /\ a.month < b.month
    \/ a.year = b.year /\ a.month = b.month /\ a.day <= b.day

DateLT(a, b) == DateLE(a, b) /\ a # b

IsLeap(y) == (y % 4 = 0 /\ y % 100 # 0) \/ y % 400 = 0

DaysIn(y, m) ==
    IF m = 2 THEN (IF IsLeap(y) THEN 29 ELSE 28)
    ELSE IF m \in {4, 6, 9, 11} THEN 30 ELSE 31

\* date + timedelta(days=n)
RECURSIVE AddDays(_, _)
AddDays(date, n) ==
    IF n = 0 THEN date
    ELSE IF date.day < DaysIn(date.year, date.month)
    THEN AddDays(Date(date.year, date.month, date.day + 1), n - 1)
    ELSE IF date.month < 12
    THEN AddDays(Date(date.year, date.month + 1, 1), n - 1)
    ELSE AddDays(Date(date.year + 1, 1, 1), n - 1)

\* datetime.now().date() of the requests
Today == Date(2024, 12, 28)

\* str.lower() of the names in use
Lower(name) ==
    IF name = "Ann" THEN "ann" ELSE IF name = "Bob" THEN "bob" ELSE name

\* column ILIKE '%pattern%': the pattern occurs in the value, whatever the
\* case; no name in use is part of another one
ilike(value, pattern) == pattern = "" \/ Lower(value) = Lower(pattern)

\* the group ids the association table holds for a contact
GroupsOf(m2m, contact_id) == {pair[2] : pair \in {q \in m2m : q[1] = contact_id}}

\* GroupResponse
GroupResponse(group) == [id |-> group.id, name |-> group.name]

\* ContactResponse, groups loaded with selectinload(Contact.groups)
ContactResponse(contact, grps, m2m) ==
    [id |-> contact.id, name |-> contact.name, birthday |-> contact.birthday,
     is_active |-> contact.is_active,
     groups |-> {GroupResponse(g) :
                    g \in {h \in grps : h.id \in GroupsOf(m2m, contact.id)}}]

\* scalar_one_or_none over rows
RowOrNone(S) == IF S = {} THEN None ELSE Some(CHOOSE row \in S : TRUE)

\* OFFSET skip LIMIT limit over a SELECT without ORDER BY: the database may
\* return the rows in any order, so any page of the right size can come back
Pages(rows, skip, limit) ==
    LET left == IF Cardinality(rows) > skip THEN Cardinality(rows) - skip ELSE 0
        size == IF left < limit THEN left ELSE limit
    IN {page \in SUBSET rows : Cardinality(page) = size}

(***************************************************************************)
(* ContactRepository and GroupRepository                                   *)
(***************************************************************************)
\* faulty variant: the owner is not part of the filter
ContactRepository_get_contact_by_id_AnyOwner(contact_id, user) ==
    RowOrNone({c \in contacts : c.id = contact_id})

\* select(Contact).filter_by(id=contact_id, user=user)
ContactRepository_get_contact_by_id(contact_id, user) ==
    RowOrNone({c \in contacts : c.id = contact_id /\ c.user_id = user.id})

\* the rows get_contacts selects before OFFSET and LIMIT
ContactRepository_get_contacts(query, user) ==
    LET pattern == IF query # None THEN Lower(Val(query)) ELSE ""
    IN {c \in contacts : c.user_id = user.id /\ ilike(c.name, pattern)}

ContactRepository_get_contacts_by_birthday(from_date, to_date, user) ==
    LET from == IF from_date # None THEN Val(from_date) ELSE Today
        to == IF to_date # None THEN Val(to_date) ELSE AddDays(from, 7)
    IN IF from.month = to.month
       THEN {c \in contacts :
               /\ c.user_id = user.id
               /\ c.birthday.month = from.month
               /\ c.birthday.day >= from.day
               /\ c.birthday.day < to.day}
       ELSE {c \in contacts :
               /\ c.user_id = user.id
               /\ \/ c.birthday.month = from.month /\ c.birthday.day >= from.day
                  \/ c.birthday.month = to.month /\ c.birthday.day < to.day}

\* faulty variant: the owner is not part of the filter
GroupRepository_get_group_by_id_AnyOwner(group_id, user) ==
    RowOrNone({g \in groups : g.id = group_id})

\* select(Group).filter_by(id=group_id, user=user)
GroupRepository_get_group_by_id(group_id, user) ==
    RowOrNone({g \in groups : g.id = group_id /\ g.user_id = user.id})

GroupRepository_get_groups(user) == {g \in groups : g.user_id = user.id}

\* faulty variant: the groups are looked up by id alone
GroupRepository_get_groups_by_ids_AnyOwner(group_ids, user) ==
    {g \in groups : g.id \in group_ids}

\* select(Group).where(Group.id.in_(group_ids), Group.user == user)
GroupRepository_get_groups_by_ids(group_ids, user) ==
    {g \in groups : g.id \in group_ids /\ g.user_id = user.id}

\* the unique constraint unique_group_user (name, user_id) refuses the row
unique_group_user(row) ==
    \E g \in groups :
        g.id # row.id /\ g.name = row.name /\ g.user_id = row.user_id

\* _handle_integrity_error: str(e.orig) names the violated constraint, and
\* the code looks for "unique_tag_user" in it
handle_integrity_error(violated) ==
    IF violated = "unique_tag_user"
    THEN [status |-> 409, detail |-> GROUP_ALREADY_EXISTS]
    ELSE [status |-> 400, detail |-> INTEGRITY_ERROR]

\* faulty variant: the row stays in the table
ContactRepository_remove_contact_NotDeleted(contact) ==
    [contacts |-> contacts, contact_m2m_group |-> contact_m2m_group]

\* db.delete(contact); commit: the row goes, and with it its rows of the
\* association table (relationship secondary=contact_m2m_group)
ContactRepository_remove_contact(contact) ==
    [contacts |-> contacts \ {contact},
     contact_m2m_group |-> {q \in contact_m2m_group : q[1] # contact.id}]

\* setattr for every field of the body but groups; contact.groups = groups
ContactRepository_update_contact(contact, body, grps) ==
    [contacts |-> (contacts \ {contact})
                   \cup {[contact EXCEPT !.name = body.name,
                                         !.birthday = body.birthday,
                                         !.is_active = body.is_active]},
     contact_m2m_group |-> {q \in contact_m2m_group : q[1] # contact.id}
                            \cup {<<contact.id, g.id>> : g \in grps}]

\* contact.is_active = body.is_active
ContactRepository_update_contact_is_active(contact, body) ==
    (contacts \ {contact}) \cup {[contact EXCEPT !.is_active = body.is_active]}

\* faulty variant: every group of the owner takes the new name
GroupRepository_update_group_EveryGroup(group, body) ==
    {IF g.user_id = group.user_id THEN [g EXCEPT !.name = body.name] ELSE g :
        g \in groups}

\* group.name = body.name
GroupRepository_update_group(group, body) ==
    (groups \ {group}) \cup {[group EXCEPT !.name = body.name]}

\* faulty variant: the rows of the association table stay behind
GroupRepository_remove_group_KeepsAssociations(group) ==
    [groups |-> groups \ {group}, contact_m2m_group |-> contact_m2m_group]

\* db.delete(group); commit: the row goes, and with it its rows of the
\* association table
GroupRepository_remove_group(group) ==
    [groups |-> groups \ {group},
     contact_m2m_group |-> {q \in contact_m2m_group : q[2] # group.id}]

(***************************************************************************)
(* The routes.  A request that get_current_user refuses ends there.  On a  *)
(* cache hit the user the routes get is a new User(...) object that the    *)
(* session does not hold; on a miss it is the row the session loaded.      *)
(***************************************************************************)
Unauthenticated(op, args, current) ==
    /\ last' = Response(op, args, current.status, current.detail, NoBody,
                        current.queries)
    /\ Rejected
    /\ UNCHANGED AddressBook

\* the response of a request that got past get_current_user
Answer(op, args, current, status, detail, body, queries) ==
    /\ cache' = current.cache
    /\ last' = Response(op, args, status, detail, body,
                        current.queries \cup queries)
    /\ UNCHANGED <<now, users, issued, superseded, rotated, prevAccess,
                   pending>>

\* the user of the request is the row loaded by get_user_by_username
Loaded(token) == redis_get(Val(access_subject(token))) = None

\* GET /contacts/
read_contacts(token, skip, limit, query) ==
    LET current == get_current_user(token)
        args == [token |-> token, skip |-> skip, limit |-> limit,
                 query |-> query]
    IN IF current.status # 200
       THEN Unauthenticated("read_contacts", args, current)
       ELSE \E page \in Pages(ContactRepository_get_contacts(query, current.user),
                              skip, limit) :
              /\ Answer("read_contacts", args, current, 200, "",
                        {ContactResponse(c, groups, contact_m2m_group) :
                            c \in page}, {"contact"})
              /\ UNCHANGED AddressBook

\* POST /contacts/.  Contact(..., user=user); db.add(contact); commit.  With
\* a user the session does not hold, add cascades to it (save-update) and the
\* flush INSERTs it a second time: IntegrityError, which ContactService does
\* not catch.
create_contact(token, body) ==
    LET current == get_current_user(token)
        args == [token |-> token, body |-> body]
    IN IF current.status # 200
       THEN Unauthenticated("create_contact", args, current)
       ELSE IF ~Loaded(token)
       THEN /\ Answer("create_contact", args, current, 500,
                      INTERNAL_SERVER_ERROR, NoBody, {"group", "users"})
            /\ UNCHANGED AddressBook
       ELSE LET grps == GroupRepository_get_groups_by_ids(body.groups,
                                                          current.user)
                id == sequences.contact_id_seq + 1
                contact == [id |-> id, name |-> body.name,
                            birthday |-> body.birthday, is_active |-> TRUE,
                            user_id |-> current.user.id]
            IN /\ contacts' = contacts \cup {contact}
               /\ contact_m2m_group' =
                     contact_m2m_group \cup {<<id, g.id>> : g \in grps}
               /\ sequences' = [sequences EXCEPT !.contact_id_seq = id]
               /\ UNCHANGED <<groups, removed>>
               /\ Answer("create_contact", args, current, 201, "",
                         ContactResponse(contact, groups, contact_m2m_group'),
                         {"group", "contact"})

\* GET /contacts/birthday
filter_contacts_by_birthday(token, from_date, to_date) ==
    LET current == get_current_user(token)
        args == [token |-> token, from_date |-> from_date,
                 to_date |-> to_date]
    IN IF current.status # 200
       THEN Unauthenticated("filter_contacts_by_birthday", args, current)
       ELSE /\ Answer("filter_contacts_by_birthday", args, current, 200, "",
                      {ContactResponse(c, groups, contact_m2m_group) :
                          c \in ContactRepository_get_contacts_by_birthday(
                                    from_date, to_date, current.user)},
                      {"contact"})
            /\ UNCHANGED AddressBook

\* GET /contacts/{contact_id}
read_contact(token, contact_id) ==
    LET current == get_current_user(token)
        args == [token |-> token, contact_id |-> contact_id]
    IN IF current.status # 200
       THEN Unauthenticated("read_contact", args, current)
       ELSE LET contact == ContactRepository_get_contact_by_id(contact_id,
                                                               current.user)
            IN /\ IF contact = None
                  THEN Answer("read_contact", args, current, 404,
                              CONTACT_NOT_FOUND, NoBody, {"contact"})
                  ELSE Answer("read_contact", args, current, 200, "",
                              ContactResponse(Val(contact), groups,
                                              contact_m2m_group),
                              {"contact"})
               /\ UNCHANGED AddressBook

\* PUT /contacts/{contact_id}
update_contact(token, contact_id, body) ==
    LET current == get_current_user(token)
        args == [token |-> token, contact_id |-> contact_id, body |-> body]
    IN IF current.status # 200
       THEN Unauthenticated("update_contact", args, current)
       ELSE LET grps == GroupRepository_get_groups_by_ids(body.groups,
                                                          current.user)
                contact == ContactRepository_get_contact_by_id(contact_id,
                                                               current.user)
            IN IF contact = None
               THEN /\ Answer("update_contact", args, current, 404,
                              "Contact not found", NoBody,
                              {"group", "contact"})
                    /\ UNCHANGED AddressBook
               ELSE LET after == ContactRepository_update_contact(
                                     Val(contact), body, grps)
                        row == CHOOSE c \in after.contacts : c.id = contact_id
                    IN /\ contacts' = after.contacts
                       /\ contact_m2m_group' = after.contact_m2m_group
                       /\ UNCHANGED <<groups, sequences, removed>>
                       /\ Answer("update_contact", args, current, 200, "",
                                 ContactResponse(row, groups,
                                                 contact_m2m_group'),
                                 {"group", "contact"})

\* PATCH /contacts/{contact_id}
update_contact_is_active(token, contact_id, body) ==
    LET current == get_current_user(token)
        args == [token |-> token, contact_id |-> contact_id, body |-> body]
    IN IF current.status # 200
       THEN Unauthenticated("update_contact_is_active", args, current)
       ELSE LET contact == ContactRepository_get_contact_by_id(contact_id,
                                                               current.user)
            IN IF contact = None
               THEN /\ Answer("update_contact_is_active", args, current, 404,
                              CONTACT_NOT_FOUND, NoBody, {"contact"})
                    /\ UNCHANGED AddressBook
               ELSE LET after == ContactRepository_update_contact_is_active(
                                     Val(contact), body)
                        row == CHOOSE c \in after : c.id = contact_id
                    IN /\ contacts' = after
                       /\ UNCHANGED <<groups, contact_m2m_group, sequences,
                                      removed>>
                       /\ Answer("update_contact_is_active", args, current,
                                 200, "",
                                 ContactResponse(row, groups,
                                                 contact_m2m_group),
                                 {"contact"})

\* DELETE /contacts/{contact_id}
remove_contact(token, contact_id) ==
    LET current == get_current_user(token)
        args == [token |-> token, contact_id |-> contact_id]
    IN IF current.status # 200
       THEN Unauthenticated("remove_contact", args, current)
       ELSE LET contact == ContactRepository_get_contact_by_id(contact_id,
                                                               current.user)
            IN IF contact = None
               THEN /\ Answer("remove_contact", args, current, 404,
                              CONTACT_NOT_FOUND, NoBody, {"contact"})
                    /\ UNCHANGED AddressBook
               ELSE LET after == ContactRepository_remove_contact(Val(contact))
                    IN /\ contacts' = after.contacts
                       /\ contact_m2m_group' = after.contact_m2m_group
                       /\ removed' = removed
                                       \cup {<<current.user.id, contact_id>>}
                       /\ UNCHANGED <<groups, sequences>>
                       /\ Answer("remove_contact", args, current, 200, "",
                                 ContactResponse(Val(contact), groups,
                                                 contact_m2m_group),
                                 {"contact"})

\* GET /groups/
read_groups(token, skip, limit) ==
    LET current == get_current_user(token)
        args == [token |-> token, skip |-> skip, limit |-> limit]
    IN IF current.status # 200
       THEN Unauthenticated("read_groups", args, current)
       ELSE \E page \in Pages(GroupRepository_get_groups(current.user),
                              skip, limit) :
              /\ Answer("read_groups", args, current, 200, "",
                        {GroupResponse(g) : g \in page}, {"group"})
              /\ UNCHANGED AddressBook

\* GET /groups/{group_id}
read_group(token, group_id) ==
    LET current == get_current_user(token)
        args == [token |-> token, group_id |-> group_id]
    IN IF current.status # 200
       THEN Unauthenticated("read_group", args, current)
       ELSE LET group == GroupRepository_get_group_by_id(group_id,
                                                         current.user)
            IN /\ IF group = None
                  THEN Answer("read_group", args, current, 404,
                              GROUP_NOT_FOUND, NoBody, {"group"})
                  ELSE Answer("read_group", args, current, 200, "",
                              GroupResponse(Val(group)), {"group"})
               /\ UNCHANGED AddressBook

\* POST /groups/.  Group(..., user=user); db.add(group); commit.  The
\* IntegrityError of the flush (the users row INSERTed a second time on a
\* hit, the unique constraint on a miss) is caught by GroupService, which
\* rolls back and maps it with _handle_integrity_error.
create_group(token, body) ==
    LET current == get_current_user(token)
        args == [token |-> token, body |-> body]
    IN IF current.status # 200
       THEN Unauthenticated("create_group", args, current)
       ELSE LET group == [id |-> sequences.group_id_seq + 1,
                          name |-> body.name, user_id |-> current.user.id]
                violated == IF ~Loaded(token) THEN "users_pkey"
                            ELSE IF unique_group_user(group)
                            THEN "unique_group_user"
                            ELSE ""
            IN IF violated # ""
               THEN LET error == handle_integrity_error(violated)
                    IN /\ Answer("create_group", args, current, error.status,
                                 error.detail, NoBody, {"group"})
                       /\ UNCHANGED AddressBook
               ELSE /\ groups' = groups \cup {group}
                    /\ sequences' = [sequences EXCEPT !.group_id_seq = group.id]
                    /\ UNCHANGED <<contacts, contact_m2m_group, removed>>
                    /\ Answer("create_group", args, current, 201, "",
                              GroupResponse(group), {"group"})

\* PUT /groups/{group_id}
update_group(token, group_id, body) ==
    LET current == get_current_user(token)
        args == [token |-> token, group_id |-> group_id, body |-> body]
    IN IF current.status # 200
       THEN Unauthenticated("update_group", args, current)
       ELSE LET group == GroupRepository_get_group_by_id(group_id,
                                                         current.user)
            IN IF group = None
               THEN /\ Answer("update_group", args, current, 404,
                              GROUP_NOT_FOUND, NoBody, {"group"})
                    /\ UNCHANGED AddressBook
               ELSE IF unique_group_user([Val(group) EXCEPT !.name = body.name])
               THEN LET error == handle_integrity_error("unique_group_user")
                    IN /\ Answer("update_group", args, current, error.status,
                                 error.detail, NoBody, {"group"})
                       /\ UNCHANGED AddressBook
               ELSE /\ groups' = GroupRepository_update_group(Val(group), body)
                    /\ UNCHANGED <<contacts, contact_m2m_group, sequences,
                                   removed>>
                    /\ Answer("update_group", args, current, 200, "",
                              GroupResponse([Val(group) EXCEPT
                                                !.name = body.name]),
                              {"group"})

\* DELETE /groups/{group_id}: 204 whether or not the group was there
delete_group(token, group_id) ==
    LET current == get_current_user(token)
        args == [token |-> token, group_id |-> group_id]
    IN IF current.status # 200
       THEN Unauthenticated("delete_group", args, current)
       ELSE LET group == GroupRepository_get_group_by_id(group_id,
                                                         current.user)
            IN IF group = None
               THEN /\ Answer("delete_group", args, current, 204, "", NoBody,
                              {"group"})
                    /\ UNCHANGED AddressBook
               ELSE LET after == GroupRepository_remove_group(Val(group))
                    IN /\ groups' = after.groups
                       /\ contact_m2m_group' = after.contact_m2m_group
                       /\ UNCHANGED <<contacts, sequences, removed>>
                       /\ Answer("delete_group", args, current, 204, "",
                                 NoBody, {"group"})

(***************************************************************************)
(* The requests clients send to the contact and group routes.              *)
(***************************************************************************)
\* the access tokens the clients hold; they are refused once expired
Visitors ==
    {token \in issued : Get(token.payload, "token_type") = Some("access")}

ContactIds == 1..MaxContacts
GroupIds == 1..MaxGroups

Birthday1 == Date(1990, 1, 25)
Birthday2 == Date(1985, 2, 10)

\* ContactModel: the group ids asked for need not exist or be the user's own
ContactBodies ==
    { [name |-> "Ann", birthday |-> Birthday1, groups |-> {}],
      [name |-> "Bob", birthday |-> Birthday2, groups |-> {1, 2}] }

\* ContactUpdate
ContactUpdates ==
    { [name |-> "Bob", birthday |-> Birthday2, is_active |-> TRUE,
       groups |-> {1, 2}] }

GroupBodies == {[name |-> n] : n \in GroupNames}

\* skip, limit and query: the defaults of the route, and one row of a search
ContactQueries == {<<0, 20, None>>, <<0, 1, Some("ANN")>>}
GroupPaging == {<<0, 50>>, <<1, 1>>}

\* from_date and to_date of the birthday query
DateInputs ==
    {None, Some(Date(2024, 1, 20)), Some(Date(2024, 1, 28)),
     Some(Date(2024, 2, 15)), Some(Date(2024, 4, 5)), Some(Date(2025, 1, 22))}

\* the birthdays of the contacts the query runs over
BirthdaySamples ==
    {Date(1990, 1, 5), Date(1990, 1, 25), Date(1985, 2, 10), Date(2001, 3, 31),
     Date(1979, 12, 30)}

ReadContacts ==
    \E token \in Visitors, query \in ContactQueries :
        read_contacts(token, query[1], query[2], query[3])

CreateContact ==
    \E token \in Visitors, body \in ContactBodies :
        /\ sequences.contact_id_seq < MaxContacts
        /\ create_contact(token, body)

FilterContactsByBirthday ==
    \E token \in Visitors : filter_contacts_by_birthday(token, None, None)

ReadContact ==
    \E token \in Visitors, contact_id \in ContactIds :
        read_contact(token, contact_id)

UpdateContact ==
    \E token \in Visitors, contact_id \in ContactIds, body \in ContactUpdates :
        update_contact(token, contact_id, body)

UpdateContactIsActive ==
    \E token \in Visitors, contact_id \in ContactIds :
        update_contact_is_active(token, contact_id, [is_active |-> FALSE])

RemoveContact ==
    \E token \in Visitors, contact_id \in ContactIds :
        remove_contact(token, contact_id)

ReadGroups ==
    \E token \in Visitors, paging \in GroupPaging :
        read_groups(token, paging[1], paging[2])

ReadGroup ==
    \E token \in Visitors, group_id \in GroupIds : read_group(token, group_id)

CreateGroup ==
    \E token \in Visitors, body \in GroupBodies :
        /\ sequences.group_id_seq < MaxGroups
        /\ create_group(token, body)

\* the same route with the one name the contact routes are checked with
CreateFamilyGroup ==
    \E token \in Visitors :
        /\ sequences.group_id_seq < MaxGroups
        /\ create_group(token, [name |-> "family"])

UpdateGroup ==
    \E token \in Visitors, group_id \in GroupIds, body \in GroupBodies :
        update_group(token, group_id, body)

DeleteGroup ==
    \E token \in Visitors, group_id \in GroupIds : delete_group(token, group_id)

BirthdayRanges ==
    \E token \in Visitors, from_date \in DateInputs, to_date \in DateInputs :
        filter_contacts_by_birthday(token, from_date, to_date)

\* the row of a registration once it is confirmed and logged in in second 0
Member(id, body) ==
    [id |-> id, username |-> body.username, email |-> body.email,
     hashed_password |-> get_password_hash(body.password),
     refresh_token |-> Some(create_refresh_token([sub |-> body.username], 0)),
     avatar |-> None, confirmed |-> TRUE, role |-> body.role]

BodyOf(username) == CHOOSE body \in RegisterBodies : body.username = username

\* both registrations made and confirmed, both identities logged in, all in
\* second 0
LoggedIn ==
    /\ now = 0
    /\ users = <<Member(1, BodyOf("n1")), Member(2, BodyOf("n2"))>>
    /\ cache = [k \in Names \cup {Unregistered} |-> None]
    /\ issued = UNION { {send_email(BodyOf(n).email, 0),
                         create_access_token([sub |-> n], 0),
                         create_refresh_token([sub |-> n], 0)} : n \in Names }
    /\ superseded = {}
    /\ rotated = {}
    /\ prevAccess = [n \in Names |-> Some(create_access_token([sub |-> n], 0))]
    /\ pending = None
    /\ last = Response("login", [username |-> "n2", password |-> "pw2"], 200,
                       "", TokenBody(create_access_token([sub |-> "n2"], 0),
                                     create_refresh_token([sub |-> "n2"], 0)),
                       {"users"})

\* no contact or group yet
InitContacts ==
    /\ LoggedIn
    /\ contacts = {}
    /\ groups = {}
    /\ contact_m2m_group = {}
    /\ sequences = [contact_id_seq |-> 0, group_id_seq |-> 0]
    /\ removed = {}

\* the contact routes, with the two group routes that change what a contact
\* can be attached to
NextContacts ==
    \/ ReadContacts
    \/ CreateContact
    \/ FilterContactsByBirthday
    \/ ReadContact
    \/ UpdateContact
    \/ UpdateContactIsActive
    \/ RemoveContact
    \/ CreateFamilyGroup
    \/ DeleteGroup
    \/ Tick

SpecContacts == InitContacts /\ [][NextContacts]_vars

\* the group routes
NextGroups ==
    \/ ReadGroups
    \/ ReadGroup
    \/ CreateGroup
    \/ UpdateGroup
    \/ DeleteGroup
    \/ Tick

SpecGroups == InitContacts /\ [][NextGroups]_vars

\* the birthday query over two stored contacts, of one owner or of two
InitBirthday ==
    /\ LoggedIn
    /\ \E owner2 \in 1..2,
          birthday1 \in BirthdaySamples, birthday2 \in BirthdaySamples :
          contacts = { [id |-> 1, name |-> "Ann", birthday |-> birthday1,
                        is_active |-> TRUE, user_id |-> 1],
                       [id |-> 2, name |-> "Bob", birthday |-> birthday2,
                        is_active |-> TRUE, user_id |-> owner2] }
    /\ groups = {}
    /\ contact_m2m_group = {}
    /\ sequences = [contact_id_seq |-> 2, group_id_seq |-> 0]
    /\ removed = {}

NextBirthday == BirthdayRanges

SpecBirthday == InitBirthday /\ [][NextBirthday]_vars

(***************************************************************************)
(* Vocabulary of the properties.                                           *)
(***************************************************************************)
IsLogin == last.op = "login"
IsRefresh == last.op = "refresh"
IsResolve == last.op = "resolve"
Succeeded == last.status = 200

\* the row whose username is n (usernames are unique)
RowOf(n) == CHOOSE i \in Ids : users[i].username = n
Exists(n) == \E i \in Ids : users[i].username = n

\* the refresh endpoint would accept the token now
RefreshAccepts(token) ==
    LET verified == verify_refresh_token(token)
    IN "user" \in DOMAIN verified /\ verified.user # None

Unexpired(token) == token.payload.exp >= now

\* the password is the one the identity registered with
GoodCredentials(username, password) ==
    /\ Exists(username)
    /\ users[RowOf(username)].hashed_password = get_password_hash(password)

\* a token of the server, of kind access, unexpired, for an identity
ValidAccessToken(token) ==
    /\ token.sig = JWT_SECRET
    /\ {"sub", "exp", "token_type"} \subseteq DOMAIN token.payload
    /\ token.payload.token_type = "access"
    /\ token.payload.exp >= now
    /\ Exists(token.payload.sub)

\* the token_type of the payload, None when it has none
KindOf(token) == Get(token.payload, "token_type")

\* the tokens create_email_token makes
IsEmailToken(token) ==
    \E e \in Names, t \in 0..MaxTime : token = create_email_token([sub |-> e], t)

\* the confirmation endpoint took the token for a confirmation token
ConfirmAccepted == last.op = "confirm_email" /\ last.status # 422

\* the identity a login or refresh request is about
SessionSubject ==
    IF IsLogin THEN last.args.username
    ELSE last.args.refresh_token.payload.sub

\* the key is in the cache c at time t
Live(c, key, t) == c[key] # None /\ t < Val(c[key]).expireAt

IsUpdateAvatar == last.op = "update_avatar"

\* the token's exp lies in the past
Expired(token) ==
    "exp" \in DOMAIN token.payload /\ token.payload.exp < now

\* the kinds create_token is called with
Kinds == {"access", "refresh"}

(***************************************************************************)
(* C1 - Supersession: once refresh(rt1) has succeeded, every later         *)
(* refresh(rt1) fails, and fails with InvalidRefreshToken while rt1 is     *)
(* still unexpired.                                                        *)
(***************************************************************************)
C1_Supersession ==
    [][ (last'.op = "refresh" /\ last'.args.refresh_token \in rotated)
        => /\ last'.status = 401
           /\ (Unexpired(last'.args.refresh_token)
               => last'.detail = INVALID_REFRESH_TOKEN) ]_vars

\* a refresh token that was rotated in an earlier second is refused
C1_RotatedThenRefused ==
    /\ IsRefresh /\ last.status = 401 /\ last.detail = INVALID_REFRESH_TOKEN
    /\ last.args.refresh_token \in rotated
    /\ Unexpired(last.args.refresh_token)

(***************************************************************************)
(* C2 - for each identity the refresh endpoint accepts at most one token   *)
(* string, the stored one; a refresh token issued earlier for the identity *)
(* is rejected once a newer one has been issued.                           *)
(***************************************************************************)
\* the first half of C2: only the stored string is accepted
C2_OnlyStoredAccepted ==
    \A token \in Presentable :
        RefreshAccepts(token)
        => /\ Exists(token.payload.sub)
           /\ users[RowOf(token.payload.sub)].refresh_token = Some(token)

\* C2: only the stored refresh token is accepted, and no refresh token
\* that a later login or refresh has overwritten
C2_SingleRefreshToken ==
    /\ C2_OnlyStoredAccepted
    /\ \A token \in superseded : ~RefreshAccepts(token)

(***************************************************************************)
(* C3 - for an existing identity and a password that verifies against its  *)
(* stored hash, login succeeds with an access and a refresh token exactly  *)
(* when the identity is confirmed, and fails with NotConfirmed otherwise.  *)
(***************************************************************************)
C3_LoginIffConfirmed ==
    (IsLogin /\ GoodCredentials(last.args.username, last.args.password))
    => LET row == users[RowOf(last.args.username)]
       IN /\ Succeeded <=> row.confirmed
          /\ Succeeded
             => /\ last.body.access_token.payload.token_type = "access"
                /\ last.body.refresh_token.payload.token_type = "refresh"
                /\ last.body.access_token.payload.sub = row.username
                /\ last.body.refresh_token.payload.sub = row.username
          /\ ~row.confirmed
             => /\ last.status = 401
                /\ last.detail = USER_NOT_CONFIRMED
                /\ last.body = NoBody

\* an unconfirmed identity presenting its own password is turned away
C3_Witness ==
    /\ IsLogin /\ GoodCredentials(last.args.username, last.args.password)
    /\ ~users[RowOf(last.args.username)].confirmed
    /\ last.detail = USER_NOT_CONFIRMED

(***************************************************************************)
(* C4 - resolve succeeds exactly when the token carries the server's       *)
(* signature, its kind is "access", it is unexpired and its subject is an  *)
(* identity; in every other case it fails with Unverified.                 *)
(***************************************************************************)
C4_ResolveIffValid ==
    IsResolve
    => /\ Succeeded <=> ValidAccessToken(last.args.token)
       /\ Succeeded => last.body.username = last.args.token.payload.sub
       /\ ~Succeeded
          => /\ last.status = 401
             /\ last.detail = UNVERIFIED_CREDENTIALS
             /\ last.body = NoBody

\* an access token has been resolved to its identity
C4_Witness ==
    /\ IsResolve /\ Succeeded
    /\ last.body = UserBase(users[RowOf(last.args.token.payload.sub)])

(***************************************************************************)
(* C5 - every issued token carries a kind and every consumer checks it:    *)
(* resolve accepts only access tokens, refresh only refresh tokens, e-mail *)
(* confirmation only e-mail confirmation tokens.                           *)
(***************************************************************************)
C5_KindChecked ==
    /\ \A token \in issued : KindOf(token) # None
    /\ (IsResolve /\ Succeeded) => KindOf(last.args.token) = Some("access")
    /\ (IsRefresh /\ Succeeded)
       => KindOf(last.args.refresh_token) = Some("refresh")
    /\ ConfirmAccepted => IsEmailToken(last.args.token)

\* an access token, presented to the confirmation endpoint, confirmed the
\* identity whose e-mail address equals the token's subject
C5_AccessTokenConfirmsEmail ==
    /\ last.op = "confirm_email" /\ last.detail = USER_CONFIRMED
    /\ KindOf(last.args.token) = Some("access")

(***************************************************************************)
(* C6 - after a successful login or refresh the identity's stored refresh  *)
(* token is the refresh token returned to the caller.                      *)
(***************************************************************************)
C6_StoredIsReturned ==
    ((IsLogin \/ IsRefresh) /\ Succeeded)
    => /\ Exists(SessionSubject)
       /\ users[RowOf(SessionSubject)].refresh_token
            = Some(last.body.refresh_token)

\* a refresh has replaced the stored token by a new one
C6_Witness ==
    /\ IsRefresh /\ Succeeded
    /\ last.body.refresh_token # last.args.refresh_token
    /\ users[RowOf(SessionSubject)].refresh_token
         = Some(last.body.refresh_token)

(***************************************************************************)
(* C7 - every successful refresh rotates both tokens: the refresh token    *)
(* returned differs from the one presented, and the access token returned  *)
(* differs from the access token of the identity's preceding login or      *)
(* refresh, whatever the timing of the two calls.                          *)
(***************************************************************************)
C7_BothRotate ==
    [][ (last'.op = "refresh" /\ last'.status = 200)
        => /\ last'.body.refresh_token # last'.args.refresh_token
           /\ Some(last'.body.access_token)
                # prevAccess[last'.args.refresh_token.payload.sub] ]_vars

(***************************************************************************)
(* C8 - refresh fails with InvalidRefreshToken both when the token fails   *)
(* decoding or the kind check and when it decodes but is not the stored    *)
(* token; a failed refresh leaves the stored token unchanged and issues    *)
(* no tokens.                                                              *)
(***************************************************************************)
C8_InvalidRefreshToken ==
    [][ (last'.op = "refresh" /\ last'.status # 200)
        => /\ last'.status = 401
           /\ last'.detail = INVALID_REFRESH_TOKEN
           /\ last'.body = NoBody
           /\ users' = users
           /\ issued' = issued ]_vars

\* what the code does: both failures are 401 and change nothing, but decode
\* and kind failures answer with the resolver's message
C8_FailureLeavesStateAlone ==
    [][ (last'.op = "refresh" /\ last'.status # 200)
        => /\ last'.status = 401
           /\ last'.detail = IF JwtDecode(last'.args.refresh_token, JWT_SECRET,
                                          now) = None
                                \/ KindOf(last'.args.refresh_token)
                                     # Some("refresh")
                             THEN UNVERIFIED_CREDENTIALS
                             ELSE INVALID_REFRESH_TOKEN
           /\ last'.body = NoBody
           /\ users' = users
           /\ issued' = issued ]_vars

(***************************************************************************)
(* C9 - login fails with InvalidCredentials when the username does not     *)
(* exist or the password does not verify, whatever the confirmed flag; the *)
(* failed login issues no tokens and leaves the stored refresh tokens      *)
(* unchanged.                                                              *)
(***************************************************************************)
C9_InvalidCredentials ==
    [][ (last'.op = "login"
         /\ ~GoodCredentials(last'.args.username, last'.args.password))
        => /\ last'.status = 401
           /\ last'.detail = INVALID_CREDENTIALS
           /\ last'.body = NoBody
           /\ users' = users
           /\ issued' = issued ]_vars

\* a wrong password for an identity that is not confirmed either
C9_Witness ==
    /\ IsLogin /\ Exists(last.args.username)
    /\ ~GoodCredentials(last.args.username, last.args.password)
    /\ ~users[RowOf(last.args.username)].confirmed
    /\ last.detail = INVALID_CREDENTIALS

C14_AdminOnly ==
    /\ \A token \in Bearer :
          LET current == get_current_user(token)
          IN current.status = 200
             => get_current_admin_user(current.user)
                  = IF users[RowOf(current.user.username)].role = UserRole_ADMIN
                    THEN [user |-> current.user]
                    ELSE [error |-> INSUFFICIENT_PERMISSIONS]
    /\ (IsUpdateAvatar /\ ValidAccessToken(last.args.token))
       => LET row == users[RowOf(last.args.token.payload.sub)]
          IN /\ row.role = UserRole_ADMIN
                => Succeeded /\ last.body.username = row.username
             /\ row.role = UserRole_USER
                => /\ last.status = 403
                   /\ last.detail = INSUFFICIENT_PERMISSIONS
                   /\ last.body = NoBody /\ row.avatar = None

\* an identity of role USER, resolved from the cache, is refused
C14_Witness ==
    /\ IsUpdateAvatar /\ last.status = 403
    /\ last.queries = {"contacts", "groups"}
    /\ users[RowOf(last.args.token.payload.sub)].role = UserRole_USER

C16_ExpiredRejected ==
    /\ (IsRefresh /\ Expired(last.args.refresh_token))
       => last.status = 401 /\ last.body = NoBody
    /\ ((IsResolve \/ IsUpdateAvatar) /\ Expired(last.args.token))
       => last.status = 401 /\ last.body = NoBody
    /\ (last.op = "confirm_email" /\ Expired(last.args.token))
       => last.status = 422 /\ last.detail = UNEXISTING_TOKEN

\* the stored refresh token of an identity is refused after its exp
C16_Witness ==
    /\ IsRefresh /\ last.status = 401
    /\ Expired(last.args.refresh_token)
    /\ Exists(last.args.refresh_token.payload.sub)
    /\ users[RowOf(last.args.refresh_token.payload.sub)].refresh_token
         = Some(last.args.refresh_token)

(***************************************************************************)
(* C18 - the failure response of resolve is the same whatever the reason:  *)
(* an expired, a forged or malformed token, a token of the wrong kind, one *)
(* without subject and one whose subject is unknown all get the same       *)
(* status and the same detail.                                             *)
(***************************************************************************)
C18_UniformFailure ==
    (IsResolve /\ ~Succeeded)
    => <<last.status, last.detail, last.body>>
         = <<401, UNVERIFIED_CREDENTIALS, NoBody>>

\* a token that verifies, for a subject that is in neither cache nor table
C18_Witness ==
    /\ IsResolve /\ last.status = 401
    /\ last.args.token.sig = JWT_SECRET
    /\ Get(last.args.token.payload, "sub") = Some(Unregistered)
    /\ last.queries = {"users"}

(***************************************************************************)
(* C19 - the stored refresh token of an identity changes only by a         *)
(* successful login or refresh of that identity; every other operation,    *)
(* and login or refresh of another identity, leaves it as it is.           *)
(***************************************************************************)
C19_RefreshTokenFrame ==
    [][ /\ Len(users') >= Len(users)
        /\ \A i \in 1..Len(users') :
             IF i \in Ids
             THEN users'[i].refresh_token # users[i].refresh_token
                  => /\ last'.op \in {"login", "refresh"}
                     /\ last'.status = 200
                     /\ users[i].username
                          = IF last'.op = "login" THEN last'.args.username
                            ELSE last'.args.refresh_token.payload.sub
             ELSE users'[i].refresh_token = None ]_vars

\* an avatar update went through and the stored refresh token is still there
C19_Witness ==
    /\ IsUpdateAvatar /\ Succeeded
    /\ last.body.avatar # None
    /\ users[RowOf(last.body.username)].refresh_token # None

(***************************************************************************)
(* C12 - staleness is bounded: every entry resolve writes carries the      *)
(* configured expiry, so that in no reachable state, between set and       *)
(* expire and under interleaved resolves included, an entry is still there *)
(* once the configured time to live has passed since it was last written.  *)
(***************************************************************************)
C12_BoundedStaleness ==
    \A k \in DOMAIN cache :
        Live(cache, k, now)
        => now < Val(cache[k]).setAt + REDIS_EXPIRATION_TIME

\* an entry whose expiry was set in a later second than its value
C12_LateExpire ==
    \E k \in DOMAIN cache :
        /\ cache[k] # None
        /\ Val(cache[k]).expireAt # NEVER
        /\ Val(cache[k]).expireAt > Val(cache[k]).setAt + REDIS_EXPIRATION_TIME

(***************************************************************************)
(* C13 - the cache is a pure accelerator: without an entry for the         *)
(* subject, or when a get or a put on the cache fails, resolve of a valid  *)
(* access token of an identity still succeeds from the users table; a      *)
(* cache failure is never answered with an error.                          *)
(***************************************************************************)
C13_CacheIsAccelerator ==
    (IsResolve /\ ValidAccessToken(last.args.token))
    => /\ Succeeded
       /\ last.body.username = last.args.token.payload.sub

\* without an entry the identity is read from the users table
C13_MissReadsStore ==
    /\ IsResolve /\ Succeeded /\ last.queries = {"users"}
    /\ last.body = UserBase(users[RowOf(last.args.token.payload.sub)])

(***************************************************************************)
(* C17 - two refresh requests presenting the same valid refresh token can  *)
(* both pass the match check before either writes, and both succeed; the   *)
(* stored refresh token is then the one written last, and the refresh      *)
(* token returned to the other request is accepted by no later refresh.    *)
(***************************************************************************)
C17_DoubleRotation ==
    [][ (/\ pending # None /\ pending' = None
         /\ "other" \in DOMAIN Val(pending)
         /\ Val(pending).other # None)
        => LET id == Val(pending).user
           IN /\ last'.op = "refresh" /\ last'.status = 200
              /\ users'[id].refresh_token = Some(last'.body.refresh_token)
              /\ users'[id].refresh_token # Val(pending).other ]_vars

\* a refresh has passed the check, another refresh of the same token has
\* been served since, and the write to come stores a different token
C17_BothPassed ==
    /\ pending # None /\ "other" \in DOMAIN Val(pending)
    /\ Val(pending).other # None
    /\ Val(pending).other
         # Some(create_refresh_token(
                  [sub |-> users[Val(pending).user].username], now))

(***************************************************************************)
(* C20 - usernames and e-mail addresses stay unique over any sequence of   *)
(* registrations, concurrent ones included: a registration whose e-mail    *)
(* or username already belongs to an identity fails with a conflict and    *)
(* creates no identity.                                                    *)
(***************************************************************************)
C20_UniqueIdentities ==
    [][ /\ \A i, j \in 1..Len(users') :
             (\/ users'[i].username = users'[j].username
              \/ users'[i].email = users'[j].email) => i = j
        /\ (/\ last'.op = "register"
            /\ \E i \in Ids : \/ users[i].username = last'.args.username
                               \/ users[i].email = last'.args.email)
           => /\ last'.status = 409
              /\ last'.detail = USER_EMAIL_OR_NAME_ALREADY_EXISTS
              /\ users' = users
              /\ issued' = issued ]_vars

\* a registration has passed both lookups and its username has been taken
\* before its INSERT
C20_Witness ==
    /\ pending # None /\ Val(pending).op = "register"
    /\ \E i \in Ids : users[i].username = Val(pending).body.username

(***************************************************************************)
(* C21 - confirm_email with a token the endpoint decodes sets confirmed on *)
(* exactly the identity whose e-mail address is the token's subject and    *)
(* leaves every other identity as it is; when no identity has that address *)
(* it answers 404 USER_NOT_FOUND and changes nothing; when the identity is *)
(* already confirmed nothing changes (confirming twice is confirming once).*)
(***************************************************************************)
C21_ConfirmEmailFrame ==
    [][ last'.op = "confirm_email"
        => LET payload == JwtDecode(last'.args.token, JWT_SECRET, now)
           IN (payload # None /\ Get(Val(payload), "sub") # None)
              => LET email == Val(Get(Val(payload), "sub"))
                     holders == {i \in Ids : users[i].email = email}
                 IN IF holders = {}
                    THEN /\ last'.status = 404
                         /\ last'.detail = USER_NOT_FOUND
                         /\ UNCHANGED <<users, cache, issued>>
                    ELSE /\ last'.status = 200
                         /\ Len(users') = Len(users)
                         /\ \A i \in Ids :
                              users'[i]
                                = IF i \in holders
                                  THEN [users[i] EXCEPT !.confirmed = TRUE]
                                  ELSE users[i] ]_vars

\* a confirmation token has just confirmed one identity while another
\* registered identity stays unconfirmed
C21_Witness ==
    /\ last.op = "confirm_email" /\ last.detail = USER_CONFIRMED
    /\ IsEmailToken(last.args.token)
    /\ \E i, j \in Ids :
         /\ users[i].email = last.args.token.payload.sub
         /\ users[i].confirmed
         /\ ~users[j].confirmed

\* a second confirmation of a confirmed identity was answered
C21_Twice ==
    /\ last.op = "confirm_email" /\ last.detail = USER_ALREADY_CONFIRMED
    /\ IsEmailToken(last.args.token)

\* a decodable token whose subject is nobody's address was answered 404
C21_NotFound ==
    /\ last.op = "confirm_email" /\ last.status = 404

(***************************************************************************)
(* C29 - tokens exist only for confirmed identities: in every state an     *)
(* identity with a stored refresh token is confirmed, and so is the        *)
(* subject of every access or refresh token handed out; a registration     *)
(* adds an unconfirmed row with no stored refresh token; and login or      *)
(* refresh succeeds only for an identity that was confirmed before it.     *)
(***************************************************************************)
C29_TokensOnlyForConfirmed ==
    [][ /\ \A i \in 1..Len(users') :
             users'[i].refresh_token # None => users'[i].confirmed
        /\ \A token \in issued' :
             KindOf(token) \in {Some("access"), Some("refresh")}
             => \E i \in 1..Len(users') :
                  /\ users'[i].username = token.payload.sub
                  /\ users'[i].confirmed
        /\ \A i \in 1..Len(users') :
             i \notin Ids
             => ~users'[i].confirmed /\ users'[i].refresh_token = None
        /\ (last'.op \in {"login", "refresh"} /\ last'.status = 200)
           => LET subject == IF last'.op = "login" THEN last'.args.username
                             ELSE last'.args.refresh_token.payload.sub
              IN \E i \in Ids :
                   users[i].username = subject /\ users[i].confirmed ]_vars

\* a login went through while another identity is registered, unconfirmed
\* and without tokens
C29_Witness ==
    /\ IsLogin /\ Succeeded
    /\ users[RowOf(last.args.username)].refresh_token # None
    /\ \E j \in Ids :
         /\ ~users[j].confirmed
         /\ users[j].refresh_token = None
         /\ \A token \in issued :
              KindOf(token) \in {Some("access"), Some("refresh")}
              => token.payload.sub # users[j].username

(***************************************************************************)
(* C30 - rotation does not revoke access tokens: resolve accepts an access *)
(* token that login or refresh issued for as long as it is unexpired, also *)
(* when a later login or refresh of its identity has overwritten the       *)
(* refresh token that was issued with it.                                  *)
(***************************************************************************)
C30_RotationKeepsAccess ==
    ( /\ IsResolve
      /\ last.args.token \in issued
      /\ KindOf(last.args.token) = Some("access")
      /\ ~Expired(last.args.token) )
    => /\ Succeeded
       /\ last.body.username = last.args.token.payload.sub

\* an access token of an earlier second was resolved after the refresh token
\* issued with it had been overwritten by a newer one
C30_Witness ==
    /\ IsResolve /\ Succeeded
    /\ last.args.token \in issued
    /\ LET token == last.args.token
           sub == token.payload.sub
           companion == create_refresh_token([sub |-> sub], token.payload.iat)
       IN /\ companion \in superseded
          /\ users[RowOf(sub)].refresh_token # None
          /\ users[RowOf(sub)].refresh_token # Some(companion)
          /\ prevAccess[sub] # Some(token)

(***************************************************************************)
(* Vocabulary of the contact and group properties.                         *)
(***************************************************************************)
\* the id of the identity an authenticated request was made by
RequesterOf(response) == RowOf(response.args.token.payload.sub)

\* the request got past get_current_user
Authenticated(response) == response.status # 401

\* the routes that address one contact by its id
ByContactId ==
    {"read_contact", "update_contact", "update_contact_is_active",
     "remove_contact"}

\* the routes that answer with a list of contacts
ContactLists == {"read_contacts", "filter_contacts_by_birthday"}

(***************************************************************************)
(* C22 - once remove_contact(id) has succeeded for a user, every later     *)
(* get, update, is_active update and delete of that id by that user fails  *)
(* with 404 CONTACT_NOT_FOUND and changes nothing, and no list the user    *)
(* asks for contains the contact again.                                    *)
(***************************************************************************)
C22_RemovedStaysRemoved ==
    [][ /\ ( /\ last'.op \in ByContactId
             /\ Authenticated(last')
             /\ <<RequesterOf(last'), last'.args.contact_id>> \in removed )
           => /\ last'.status = 404
              /\ last'.detail = CONTACT_NOT_FOUND
              /\ UNCHANGED <<contacts, contact_m2m_group>>
        /\ (last'.op \in ContactLists /\ Authenticated(last'))
           => \A c \in last'.body : <<RequesterOf(last'), c.id>> \notin removed
      ]_vars

\* the second delete of a contact has been refused
C22_Witness ==
    /\ last.op = "remove_contact"
    /\ last.status = 404
    /\ <<RequesterOf(last), last.args.contact_id>> \in removed

(***************************************************************************)
(* C23 - get, update, is_active update and delete of a contact id under    *)
(* which the requesting user has no contact fail with 404                  *)
(* CONTACT_NOT_FOUND and leave every stored contact and every row of the   *)
(* association table as they are.                                          *)
(***************************************************************************)
C23_NotFoundChangesNothing ==
    [][ ( /\ last'.op \in ByContactId
          /\ Authenticated(last')
          /\ ~\E c \in contacts :
                /\ c.id = last'.args.contact_id
                /\ c.user_id = RequesterOf(last') )
        => /\ last'.status = 404
           /\ last'.detail = CONTACT_NOT_FOUND
           /\ last'.body = NoBody
           /\ UNCHANGED <<contacts, contact_m2m_group, groups>> ]_vars

\* an update of another user's contact, which is attached to a group, has
\* been refused
C23_Witness ==
    /\ last.op = "update_contact"
    /\ last.status = 404
    /\ \E c \in contacts :
         /\ c.id = last.args.contact_id
         /\ c.user_id # RequesterOf(last)
         /\ GroupsOf(contact_m2m_group, c.id) # {}

(***************************************************************************)
(* C24 - get and update of a group id under which the requesting user has  *)
(* no group fail with 404 GROUP_NOT_FOUND and leave all groups as they     *)
(* are; an update of an existing group changes nothing but the name of     *)
(* that group.                                                             *)
(***************************************************************************)
C24_GroupNotFoundAndRename ==
    [][ (last'.op \in {"read_group", "update_group"} /\ Authenticated(last'))
        => LET own == {g \in groups :
                         /\ g.id = last'.args.group_id
                         /\ g.user_id = RequesterOf(last')}
           IN IF own = {}
              THEN /\ last'.status = 404
                   /\ last'.detail = GROUP_NOT_FOUND
                   /\ UNCHANGED <<groups, contact_m2m_group>>
              ELSE /\ last'.op = "update_group" /\ last'.status = 200
                      => groups' = (groups \ own)
                                     \cup {[g EXCEPT !.name = last'.args.body.name] :
                                             g \in own}
                   /\ last'.status # 200 \/ last'.op = "read_group"
                      => UNCHANGED groups
                   /\ UNCHANGED <<contacts, contact_m2m_group>> ]_vars

\* a group has been renamed while a second group is in the table
C24_Witness ==
    /\ last.op = "update_group"
    /\ last.status = 200
    /\ \E g, h \in groups :
         /\ g.id = last.args.group_id
         /\ g.name = last.args.body.name
         /\ h.id # g.id
         /\ h.name # g.name

\* an update of a group of another user has been refused
C24_NotFound ==
    /\ last.op = "update_group"
    /\ last.status = 404
    /\ \E g \in groups : g.id = last.args.group_id

(***************************************************************************)
(* C25 - for every from_date <= to_date the birthday query returns exactly *)
(* the contacts of the user whose birthday, taken by month and day, falls  *)
(* on or after from_date and before to_date: within one month, across a    *)
(* month or year boundary, or over several months.                         *)
(***************************************************************************)
\* the birthday has an anniversary in [from, to)
InWindow(birthday, from, to) ==
    \E y \in from.year..to.year :
        /\ DateLE(from, Date(y, birthday.month, birthday.day))
        /\ DateLT(Date(y, birthday.month, birthday.day), to)

\* a birthday query with both dates given, in order, has been answered
BirthdayAnswered ==
    /\ last.op = "filter_contacts_by_birthday"
    /\ last.status = 200
    /\ last.args.from_date # None
    /\ last.args.to_date # None
    /\ DateLE(Val(last.args.from_date), Val(last.args.to_date))

C25_BirthdayRange ==
    BirthdayAnswered
    => {c.id : c \in last.body}
         = {c.id : c \in {d \in contacts :
                            /\ d.user_id = RequesterOf(last)
                            /\ InWindow(d.birthday, Val(last.args.from_date),
                                        Val(last.args.to_date))}}

\* a range over several months was answered without a contact of the user
\* whose birthday lies in a month between the first and the last
C25_MonthBetweenLeftOut ==
    /\ BirthdayAnswered
    /\ Val(last.args.from_date).year = Val(last.args.to_date).year
    /\ \E c \in contacts :
         /\ c.user_id = RequesterOf(last)
         /\ c.birthday.month > Val(last.args.from_date).month
         /\ c.birthday.month < Val(last.args.to_date).month
         /\ c.id \notin {d.id : d \in last.body}

\* what holds: a range inside one month of one year, or from one month into
\* the next, is answered as the claim says
C25_NarrowRanges ==
    ( /\ BirthdayAnswered
      /\ LET from == Val(last.args.from_date)
             to == Val(last.args.to_date)
         IN \/ from.year = to.year /\ to.month - from.month \in {0, 1}
            \/ to.year = from.year + 1 /\ from.month = 12 /\ to.month = 1 )
    => {c.id : c \in last.body}
         = {c.id : c \in {d \in contacts :
                            /\ d.user_id = RequesterOf(last)
                            /\ InWindow(d.birthday, Val(last.args.from_date),
                                        Val(last.args.to_date))}}

(***************************************************************************)
(* C26 - ownership isolation: a contact or group operation returns,        *)
(* creates, changes and deletes only contacts and groups whose owner is    *)
(* the requesting user, and touches only association rows between them; a  *)
(* request that is not authenticated returns and changes nothing.          *)
(***************************************************************************)
AddressBookOps ==
    ByContactId \cup ContactLists
    \cup {"create_contact", "read_groups", "read_group", "create_group",
          "update_group", "delete_group"}

\* the contacts and the groups a response shows
ContactsIn(response) ==
    IF response.status \notin {200, 201} THEN {}
    ELSE IF response.op \in ContactLists THEN response.body
    ELSE IF response.op \in ByContactId \cup {"create_contact"}
    THEN {response.body}
    ELSE {}

GroupsIn(response) ==
    IF response.status \notin {200, 201} THEN {}
    ELSE IF response.op = "read_groups" THEN response.body
    ELSE IF response.op \in {"read_group", "create_group", "update_group"}
    THEN {response.body}
    ELSE UNION {c.groups : c \in ContactsIn(response)}

C26_OwnershipIsolation ==
    [][ last'.op \in AddressBookOps
        => IF ~Authenticated(last')
           THEN /\ last'.body = NoBody
                /\ UNCHANGED <<contacts, groups, contact_m2m_group>>
           ELSE LET u == RequesterOf(last')
                    Differ(old, new) == (old \ new) \cup (new \ old)
                IN /\ \A c \in Differ(contacts, contacts') : c.user_id = u
                   /\ \A g \in Differ(groups, groups') : g.user_id = u
                   /\ \A q \in Differ(contact_m2m_group, contact_m2m_group') :
                        /\ \A c \in contacts \cup contacts' :
                             c.id = q[1] => c.user_id = u
                        /\ \A g \in groups \cup groups' :
                             g.id = q[2] => g.user_id = u
                   /\ \A shown \in ContactsIn(last') :
                        \E c \in contacts \cup contacts' :
                            c.id = shown.id /\ c.user_id = u
                   /\ \A shown \in GroupsIn(last') :
                        \E g \in groups \cup groups' :
                            g.id = shown.id /\ g.user_id = u ]_vars

\* a user has been shown a contact list while another user owns a contact
\* and a group
C26_Witness ==
    /\ last.op = "read_contacts"
    /\ last.status = 200
    /\ last.body # {}
    /\ \E c \in contacts : c.user_id # RequesterOf(last)
    /\ \E g \in groups : g.user_id # RequesterOf(last)

(***************************************************************************)
(* C27 - in every state each row of the association table joins a stored   *)
(* contact to a stored group of the same owner: create_contact and         *)
(* update_contact attach exactly the requested group ids that belong to    *)
(* the requesting user, and remove_group takes the rows of the removed     *)
(* group with it.                                                          *)
(***************************************************************************)
C27_AttachmentsSameOwner ==
    [][ /\ \A q \in contact_m2m_group' :
             \E c \in contacts', g \in groups' :
                 c.id = q[1] /\ g.id = q[2] /\ c.user_id = g.user_id
        /\ ( /\ last'.op \in {"create_contact", "update_contact"}
             /\ last'.status \in {200, 201} )
           => GroupsOf(contact_m2m_group', last'.body.id)
                = {g.id : g \in {h \in groups :
                                   /\ h.id \in last'.args.body.groups
                                   /\ h.user_id = RequesterOf(last')}}
      ]_vars

\* a contact was created with two group ids asked for, and only the one that
\* is a group of the user was attached
C27_Witness ==
    /\ last.op = "create_contact"
    /\ last.status = 201
    /\ Cardinality(last.args.body.groups) = 2
    /\ Cardinality(GroupsOf(contact_m2m_group, last.body.id)) = 1
    /\ \E g \in groups : g.user_id # RequesterOf(last)

\* a group was deleted while a contact of its owner is stored
C27_GroupRemoved ==
    /\ last.op = "delete_group"
    /\ last.status = 204
    /\ ~\E g \in groups : g.id = last.args.group_id
    /\ last.args.group_id <= sequences.group_id_seq
    /\ \E c \in contacts : c.user_id = RequesterOf(last)

(***************************************************************************)
(* C28 - creating a group under a name that another group of the same user *)
(* already has, or renaming a group of the user to such a name, is         *)
(* answered 409 with GROUP_ALREADY_EXISTS and leaves the groups as they    *)
(* were.  The code answers 400 with INTEGRITY_ERROR instead: the handler   *)
(* looks for "unique_tag_user", the constraint is named unique_group_user. *)
(***************************************************************************)
\* the request asks for a name another group of the requesting user has
NameTaken(response) ==
    \E g \in groups :
        /\ g.user_id = RequesterOf(response)
        /\ g.name = response.args.body.name
        /\ \/ response.op = "create_group"
           \/ /\ response.op = "update_group"
              /\ g.id # response.args.group_id
              /\ \E own \in groups : /\ own.id = response.args.group_id
                                     /\ own.user_id = g.user_id

C28_DuplicateNameConflict ==
    [][ ( /\ last'.op \in {"create_group", "update_group"}
          /\ Authenticated(last')
          /\ NameTaken(last') )
        => /\ last'.status = 409
           /\ last'.detail = GROUP_ALREADY_EXISTS
           /\ groups' = groups ]_vars

\* what does hold: the request is refused and the groups stay as they were
C28_DuplicateNameRefused ==
    [][ ( /\ last'.op \in {"create_group", "update_group"}
          /\ Authenticated(last')
          /\ NameTaken(last') )
        => /\ last'.status = 400
           /\ last'.detail = INTEGRITY_ERROR
           /\ groups' = groups ]_vars

\* a user loaded from the table asked a second time for a name of theirs and
\* was answered 400
C28_Witness ==
    /\ last.op = "create_group"
    /\ "users" \in last.queries
    /\ last.status = 400
    /\ last.detail = INTEGRITY_ERROR
    /\ \E g \in groups : /\ g.user_id = RequesterOf(last)
                         /\ g.name = last.args.body.name

\* a rename to the name of another group of the user was answered 400
C28_RenameRefused ==
    /\ last.op = "update_group"
    /\ last.status = 400
    /\ last.detail = INTEGRITY_ERROR
    /\ Cardinality({g \in groups : g.user_id = RequesterOf(last)}) = 2

\* two users hold a group of the same name each
C28_SameNameTwoUsers ==
    \E g \in groups, h \in groups : g.name = h.name /\ g.user_id # h.user_id

====
